---------------------------- MODULE Spec2Model ----------------------------
(***************************************************************************)
(* Model of the TLS connection layer of components/net/connector.rs:       *)
(* the hostname matcher (mod verify), the verification callback and the    *)
(* handshake that ServoSslConnector::connect drives.                       *)
(*                                                                         *)
(* A Rust &str is a sequence of one-character strings; byte offsets are    *)
(* 0-based as in the source (every character used here is one byte).       *)
(* An Option<T> is a sequence of length at most one: None is << >> and     *)
(* Some(x) is << x >>.                                                     *)
(***************************************************************************)
EXTENDS Integers, Sequences, FiniteSets, TLC

VARIABLES
    pattern,      \* matches_dns: the certificate's name pattern
    hostname,     \* matches_dns: the requested host name
    is_ip,        \* matches_dns: the caller's "host is an IP literal" flag
    dns_result,   \* matches_dns: None before the call, Some(bool) after it
    wildcard_result, \* matches_dns: None before the call, then Some of the
                  \* Option<bool> its matches_wildcard call returned
    domain,       \* verify_hostname: the requested host
    cert,         \* verify_hostname: the leaf certificate
    host_result,  \* verify_hostname: None before the call, Some(bool) after it
    mode_result,  \* the two verification modes on one leaf and host:
                  \* [openssl, rustls], each None before its call, Some(bool) after
    rustls_call,  \* rustls_verify: None before the call, then Some of
                  \* [preverify_ok, error_depth, chain, ret]
    ssl,          \* connect: the handshake session of the current connect call
    calls,        \* connect: the verification callback invocations of the session
    connector,    \* create_http_connector: the ServoSslConnector it built
    sessions,     \* concurrent connect calls: the handshake session of each
    session_calls, \* concurrent connect calls: the callback invocations of each
    origins,      \* script origins: the Origin values created so far, each
                  \* with the call that created it
    opaque_counter, \* script origins: the counter new_opaque draws identifiers from
    xow,          \* CrossOrigin: None before CrossOrigin::new, Some(object) after
    xow_result,   \* CrossOrigin: None before isPlatformObjectSameOrigin, then
                  \* Some of [obj, ret]
    children,     \* table section: the child nodes of the section, in tree order
    created,      \* table section: the number of nodes created so far
    insert_call   \* table section: None before insert_cell_or_row, then Some of
                  \* [index, before, ret]

vars ==
    << pattern, hostname, is_ip, dns_result, wildcard_result, domain, cert,
       host_result, mode_result, rustls_call, ssl, calls, connector, sessions, session_calls,
       origins, opaque_counter, xow, xow_result, children, created, insert_call >>

dnsVars == << pattern, hostname, is_ip, dns_result, wildcard_result >>

hostVars == << domain, cert, host_result, mode_result, rustls_call >>

sslVars == << ssl, calls >>

poolVars == << connector, sessions, session_calls >>

originVars == << origins, opaque_counter, xow, xow_result >>

tableVars == << children, created, insert_call >>

(***************************************************************************)
(* Option and string helpers (std::option, str)                            *)
(***************************************************************************)
None == << >>

Some(x) == << x >>

\* an unwrap that answers false where the closure would have been run
unwrap_or_false(opt, default) == IF opt = None THEN FALSE ELSE opt[1]

\* Option::unwrap_or_else
unwrap_or_else(opt, default) == IF opt = None THEN default ELSE opt[1]

\* &s[from..to], 0-based, to exclusive
Slice(s, from, to) == SubSeq(s, from + 1, to)

\* &s[from..]
SliceFrom(s, from) == SubSeq(s, from + 1, Len(s))

\* str::ends_with(char)
ends_with_char(s, c) == Len(s) > 0 /\ s[Len(s)] = c

\* str::starts_with(&str)
starts_with(s, prefix) ==
    Len(prefix) <= Len(s) /\ SubSeq(s, 1, Len(prefix)) = prefix

\* str::ends_with(&str)
ends_with(s, suffix) ==
    Len(suffix) <= Len(s) /\ SubSeq(s, Len(s) - Len(suffix) + 1, Len(s)) = suffix

\* str::match_indices(char): the 0-based offsets of c in s, ascending
match_indices(s, c) ==
    LET RECURSIVE Scan(_, _)
        Scan(i, acc) == IF i > Len(s) THEN acc
                        ELSE Scan(i + 1, IF s[i] = c THEN Append(acc, i - 1) ELSE acc)
    IN Scan(1, << >>)

\* str::find(char): Some(offset of the first c) or None
find(s, c) ==
    LET idxs == match_indices(s, c)
    IN IF idxs = << >> THEN None ELSE Some(idxs[1])

contains(s, c) == \E i \in 1..Len(s) : s[i] = c

(***************************************************************************)
(* verify::matches_wildcard and verify::matches_dns                        *)
(***************************************************************************)
ACE_PREFIX == << "x", "n", "-", "-" >>

\* a mutation of wildcard_excluded: the ACE-prefix test is lost
wildcard_excluded_ip_only(pat, ip) == ip

\* line 232: "IP addresses and internationalized domains can't involved in wildcards"
wildcard_excluded(pat, ip) == ip \/ starts_with(pat, ACE_PREFIX)

\* a mutation of too_few_dots: one '.' is enough ("*.com" becomes a wildcard)
too_few_dots_none(dot_idxs) == Len(dot_idxs) < 1

\* lines 242-258: wildcard_end is the first '.', and a second '.' must exist
too_few_dots(dot_idxs) == Len(dot_idxs) < 2

\* a first-label test that lets a '*' in any label through
wildcard_past_first_label_never(wildcard_location, wildcard_end) == FALSE

\* line 261: wildcards can only be in the first component
wildcard_past_first_label(wildcard_location, wildcard_end) ==
    wildcard_location > wildcard_end

\* a comparison that only asks the hostname to end with the pattern's tail
non_wildcard_parts_differ_tail(pat, wildcard_end, host, hostname_label_end) ==
    ~ends_with(host, SliceFrom(pat, wildcard_end))

\* line 271: pattern[wildcard_end..] != hostname[hostname_label_end..]
non_wildcard_parts_differ(pat, wildcard_end, host, hostname_label_end) ==
    SliceFrom(pat, wildcard_end) # SliceFrom(host, hostname_label_end)

\* a suffix test on the whole label, the part matched by the prefix included
label_ends_with_suffix_overlapping(hostname_label, wildcard_prefix, wildcard_suffix) ==
    ends_with(hostname_label, wildcard_suffix)

\* line 286: hostname_label[wildcard_prefix.len()..].ends_with(wildcard_suffix)
label_ends_with_suffix(hostname_label, wildcard_prefix, wildcard_suffix) ==
    ends_with(SliceFrom(hostname_label, Len(wildcard_prefix)), wildcard_suffix)

\* fn matches_wildcard(pattern, hostname, is_ip) -> Option<bool>
matches_wildcard(pat, host, ip) ==
    LET wildcard_location == find(pat, "*")
        dot_idxs          == match_indices(pat, ".")
        hostname_label_end == find(host, ".")
    IN  IF wildcard_excluded(pat, ip) THEN None
        ELSE IF wildcard_location = None THEN None
        ELSE IF too_few_dots(dot_idxs) THEN None
        ELSE IF wildcard_past_first_label(wildcard_location[1], dot_idxs[1]) THEN None
        ELSE IF hostname_label_end = None THEN None
        ELSE IF non_wildcard_parts_differ(pat, dot_idxs[1], host, hostname_label_end[1])
             THEN Some(FALSE)
        ELSE LET wildcard_prefix == Slice(pat, 0, wildcard_location[1])
                 wildcard_suffix == Slice(pat, wildcard_location[1] + 1, dot_idxs[1])
                 hostname_label  == Slice(host, 0, hostname_label_end[1])
             IN  IF ~starts_with(hostname_label, wildcard_prefix) THEN Some(FALSE)
                 ELSE IF ~label_ends_with_suffix(hostname_label, wildcard_prefix,
                                                 wildcard_suffix) THEN Some(FALSE)
                 ELSE Some(TRUE)

\* the trailing-dot normalisation at the head of matches_dns
strip_dot(s) == IF ends_with_char(s, ".") THEN Slice(s, 0, Len(s) - 1) ELSE s

\* a matches_dns that normalises the pattern and leaves the hostname as given
matches_dns_pattern_only(pat, host, ip) ==
    unwrap_or_else(matches_wildcard(strip_dot(pat), host, ip), strip_dot(pat) = host)

\* fn matches_dns(pattern, hostname, is_ip) -> bool
matches_dns(pat, host, ip) ==
    LET p == strip_dot(pat)
        h == strip_dot(host)
    IN  unwrap_or_else(matches_wildcard(p, h, ip), p = h)

(***************************************************************************)
(* domain.parse::<IpAddr>() (std::net::parser, as called at lines 174 and  *)
(* 208): a recursive-descent parser over the whole string                  *)
(***************************************************************************)
\* Parser::read_digit: the value of c in the radix, or -1
digit_value(c, radix) ==
    LET dec == << "0", "1", "2", "3", "4", "5", "6", "7", "8", "9" >>
        low == << "a", "b", "c", "d", "e", "f" >>
        upp == << "A", "B", "C", "D", "E", "F" >>
    IN  IF \E d \in 1..10 : dec[d] = c
        THEN (CHOOSE d \in 1..10 : dec[d] = c) - 1
        ELSE IF radix = 16 /\ \E d \in 1..6 : low[d] = c
        THEN (CHOOSE d \in 1..6 : low[d] = c) + 9
        ELSE IF radix = 16 /\ \E d \in 1..6 : upp[d] = c
        THEN (CHOOSE d \in 1..6 : upp[d] = c) + 9
        ELSE -1

\* Parser::read_number(radix, max_digits, upto) at 1-based position pos:
\* None, or Some([n, pos]) with pos the position after the digits
read_number(s, pos, radix, max_digits, upto) ==
    LET RECURSIVE Loop(_, _, _)
        Loop(i, r, digit_count) ==
            IF i <= Len(s) /\ digit_value(s[i], radix) >= 0
            THEN IF digit_count + 1 > max_digits
                    \/ r * radix + digit_value(s[i], radix) >= upto
                 THEN None
                 ELSE Loop(i + 1, r * radix + digit_value(s[i], radix), digit_count + 1)
            ELSE IF digit_count = 0 THEN None
            ELSE Some([n |-> r, pos |-> i])
    IN  Loop(pos, 0, 0)

\* Parser::read_given_char
read_given_char(s, pos, c) ==
    IF pos <= Len(s) /\ s[pos] = c THEN Some(pos + 1) ELSE None

RECURSIVE read_ipv4_loop(_, _, _, _)

\* read_ipv4_addr, the octet read after the separator
read_ipv4_octet(s, i, bs, octet) ==
    IF octet = None THEN None
    ELSE read_ipv4_loop(s, i + 1, octet[1].pos, Append(bs, octet[1].n))

\* read_ipv4_addr, the '.' that separates octet i from the one before
read_ipv4_sep(s, i, bs, sep) ==
    IF sep = None THEN None
    ELSE read_ipv4_octet(s, i, bs, read_number(s, sep[1], 10, 3, 256))

\* read_ipv4_addr, the loop "while i < 4"
read_ipv4_loop(s, i, p, bs) ==
    IF i = 4 THEN Some([octets |-> bs, pos |-> p])
    ELSE read_ipv4_sep(s, i, bs, IF i = 0 THEN Some(p) ELSE read_given_char(s, p, "."))

\* Parser::read_ipv4_addr: None, or Some([octets, pos])
read_ipv4_addr(s, pos) == read_ipv4_loop(s, 0, pos, << >>)

RECURSIVE read_groups_loop(_, _, _, _, _)

\* read_groups, the 16-bit group tried when no IPv4 address is read
read_groups_group(s, limit, i, p, gs, grp) ==
    IF grp = None THEN [groups |-> gs, pos |-> p, ipv4 |-> FALSE]
    ELSE read_groups_loop(s, limit, i + 1, grp[1].pos, Append(gs, grp[1].n))

\* read_groups, the embedded IPv4 address tried first
read_groups_ipv4(s, limit, i, p, gs, sep, ipv4) ==
    IF ipv4 # None
    THEN [groups |-> gs \o << ipv4[1].octets[1] * 256 + ipv4[1].octets[2],
                              ipv4[1].octets[3] * 256 + ipv4[1].octets[4] >>,
          pos |-> ipv4[1].pos, ipv4 |-> TRUE]
    ELSE read_groups_group(s, limit, i, p, gs,
                           IF sep # None THEN read_number(s, sep[1], 16, 4, 65536)
                           ELSE None)

\* read_groups, the ':' that separates group i from the one before
read_groups_sep(s, limit, i, p, gs, sep) ==
    read_groups_ipv4(s, limit, i, p, gs, sep,
                     IF i < limit - 1 /\ sep # None THEN read_ipv4_addr(s, sep[1])
                     ELSE None)

\* read_groups, the loop "while i < limit"
read_groups_loop(s, limit, i, p, gs) ==
    IF i >= limit THEN [groups |-> gs, pos |-> p, ipv4 |-> FALSE]
    ELSE read_groups_sep(s, limit, i, p, gs,
                         IF i = 0 THEN Some(p) ELSE read_given_char(s, p, ":"))

\* read_groups of Parser::read_ipv6_addr: [groups, pos, ipv4]
read_groups(s, pos, limit) == read_groups_loop(s, limit, 0, pos, << >>)

\* ipv6_addr_from_head_tail, with the position the tail ended at
ipv6_addr_from_head_tail(head, tail) ==
    Some([segments |-> head.groups
                       \o [k \in 1..(8 - Len(head.groups) - Len(tail.groups)) |-> 0]
                       \o tail.groups,
          pos |-> tail.pos])

\* read_ipv6_addr after the "::"
read_ipv6_tail(s, head, colons) ==
    IF colons = None THEN None
    ELSE ipv6_addr_from_head_tail(head, read_groups(s, colons[1], 8 - Len(head.groups)))

\* the second ':' of a "::"
read_second_colon(s, c1) == IF c1 = None THEN None ELSE read_given_char(s, c1[1], ":")

\* read_ipv6_addr after the head groups
read_ipv6_head(s, head) ==
    IF Len(head.groups) = 8 THEN Some([segments |-> head.groups, pos |-> head.pos])
    ELSE IF head.ipv4 THEN None
    ELSE read_ipv6_tail(s, head, read_second_colon(s, read_given_char(s, head.pos, ":")))

\* Parser::read_ipv6_addr: None, or Some([segments, pos])
read_ipv6_addr(s, pos) == read_ipv6_head(s, read_groups(s, pos, 8))

\* Parser::read_till_eof of an IPv6 address that follows a failed IPv4 one
parse_ip_v6(s, v6) ==
    IF v6 # None /\ v6[1].pos = Len(s) + 1
    THEN Some([family |-> "V6", segments |-> v6[1].segments])
    ELSE None

\* Parser::read_till_eof of an IPv4 address
parse_ip_v4(s, v4) ==
    IF v4 # None /\ v4[1].pos = Len(s) + 1
    THEN Some([family |-> "V4", octets |-> v4[1].octets])
    ELSE parse_ip_v6(s, read_ipv6_addr(s, 1))

\* str::parse::<IpAddr>: Err is None; Ok is Some of a V4 or a V6 address
parse_ip(s) == parse_ip_v4(s, read_ipv4_addr(s, 1))

(***************************************************************************)
(* Certificates.  A certificate is [san, cn]: san is the Option of the     *)
(* subjectAltName stack (subject_alt_names()), cn the Common Name entries  *)
(* of the subject in order (entries_by_nid(COMMONNAME)).  A GeneralName is *)
(* [kind, data] with kind "dns", "ip" or "email"; a Common Name entry is   *)
(* [utf8, data], utf8 telling whether its bytes are valid UTF-8.           *)
(***************************************************************************)
\* GeneralName::ipaddress
ipaddress(name) == IF name.kind = "ip" THEN Some(name.data) ELSE None

\* GeneralName::dnsname
dnsname(name) == IF name.kind = "dns" THEN Some(name.data) ELSE None

\* a mutation of matches_ip: the two bytes of an IPv6 segment are swapped
matches_ip_swapped(expected, actual) ==
    IF expected.family = "V4" /\ Len(actual) = 4 THEN actual = expected.octets
    ELSE IF expected.family = "V6" /\ Len(actual) = 16
    THEN [k \in 1..8 |-> (actual[2 * k] * 256 + actual[2 * k - 1]) % 65536]
             = expected.segments
    ELSE FALSE

\* fn matches_ip(expected: &IpAddr, actual: &[u8]) -> bool
matches_ip(expected, actual) ==
    IF expected.family = "V4" /\ Len(actual) = 4 THEN actual = expected.octets
    ELSE IF expected.family = "V6" /\ Len(actual) = 16
    THEN [k \in 1..8 |-> (actual[2 * k - 1] * 256 + actual[2 * k]) % 65536]
             = expected.segments
    ELSE FALSE

\* the body of the loop of verify_subject_alt_names (lines 177-192): whether
\* this entry makes the function return true, ip being domain.parse()
name_matches(dom, name, ip) ==
    IF ip # None
    THEN ipaddress(name) # None /\ matches_ip(ip[1], ipaddress(name)[1])
    ELSE dnsname(name) # None /\ matches_dns(dnsname(name)[1], dom, FALSE)

\* for name in &names, from the i-th entry on: return true at the first entry
\* that matches, false when the entries are exhausted
RECURSIVE subject_alt_names_from(_, _, _, _)
subject_alt_names_from(dom, names, ip, i) ==
    IF i > Len(names) THEN FALSE
    ELSE IF name_matches(dom, names[i], ip) THEN TRUE
    ELSE subject_alt_names_from(dom, names, ip, i + 1)

\* a loop that lets the first entry decide
subject_alt_names_loop_first_only(dom, names, ip) ==
    Len(names) > 0 /\ name_matches(dom, names[1], ip)

\* the loop of verify_subject_alt_names, ip being domain.parse()
subject_alt_names_loop(dom, names, ip) == subject_alt_names_from(dom, names, ip, 1)

\* fn verify_subject_alt_names(domain, names) -> bool
verify_subject_alt_names(dom, names) == subject_alt_names_loop(dom, names, parse_ip(dom))

\* a mutation of subject_name_is_ip: the flag is never set
subject_name_is_ip_never(dom) == FALSE

\* line 208: let is_ip = domain.parse::<IpAddr>().is_ok()
subject_name_is_ip(dom) == parse_ip(dom) # None

\* a verify_subject_name that tries every Common Name entry
verify_subject_name_any_entry(dom, subject_name) ==
    \E i \in 1..Len(subject_name) :
        /\ subject_name[i].utf8
        /\ matches_dns(subject_name[i].data, dom, subject_name_is_ip(dom))

\* fn verify_subject_name(domain, subject_name) -> bool
verify_subject_name(dom, subject_name) ==
    IF Len(subject_name) = 0 THEN FALSE
    ELSE IF ~subject_name[1].utf8 THEN FALSE
    ELSE matches_dns(subject_name[1].data, dom, subject_name_is_ip(dom))

\* a mutation of verify_hostname: the Common Name is tried when no SAN matches
verify_hostname_cn_fallback(dom, x509) ==
    IF x509.san # None
    THEN verify_subject_alt_names(dom, x509.san[1]) \/ verify_subject_name(dom, x509.cn)
    ELSE verify_subject_name(dom, x509.cn)

\* fn verify_hostname(domain, cert) -> bool
verify_hostname(dom, x509) ==
    IF x509.san # None THEN verify_subject_alt_names(dom, x509.san[1])
    ELSE verify_subject_name(dom, x509.cn)

(***************************************************************************)
(* verify::verify_callback.  x509_ctx is [error_depth, current_cert]; the  *)
(* result is [ret, hostname]: ret is the value returned to the library and *)
(* hostname the Option of the verify_hostname call made on the way.        *)
(***************************************************************************)
\* a mutation of verify_callback: the hostname verdict is dropped
verify_callback_accept(dom, preverify_ok, x509_ctx) ==
    IF ~preverify_ok \/ x509_ctx.error_depth # 0
    THEN [ret |-> preverify_ok, hostname |-> None]
    ELSE IF x509_ctx.current_cert # None
    THEN [ret |-> TRUE,
          hostname |-> Some(verify_hostname(dom, x509_ctx.current_cert[1]))]
    ELSE [ret |-> TRUE, hostname |-> None]

\* a mutation of verify_callback: a failed preverify is not returned at the leaf
verify_callback_override(dom, preverify_ok, x509_ctx) ==
    IF x509_ctx.error_depth # 0
    THEN [ret |-> preverify_ok, hostname |-> None]
    ELSE IF x509_ctx.current_cert # None
    THEN LET m == verify_hostname(dom, x509_ctx.current_cert[1])
         IN  [ret |-> m, hostname |-> Some(m)]
    ELSE [ret |-> TRUE, hostname |-> None]

\* a mutation of verify_callback: the depth is not tested
verify_callback_any_depth(dom, preverify_ok, x509_ctx) ==
    IF ~preverify_ok
    THEN [ret |-> preverify_ok, hostname |-> None]
    ELSE IF x509_ctx.current_cert # None
    THEN LET m == verify_hostname(dom, x509_ctx.current_cert[1])
         IN  [ret |-> m, hostname |-> Some(m)]
    ELSE [ret |-> TRUE, hostname |-> None]

\* pub fn verify_callback(domain, preverify_ok, x509_ctx) -> bool
verify_callback(dom, preverify_ok, x509_ctx) ==
    IF ~preverify_ok \/ x509_ctx.error_depth # 0
    THEN [ret |-> preverify_ok, hostname |-> None]
    ELSE IF x509_ctx.current_cert # None
    THEN LET m == verify_hostname(dom, x509_ctx.current_cert[1])
         IN  [ret |-> m, hostname |-> Some(m)]
    ELSE [ret |-> TRUE, hostname |-> None]

\* the connector before a connect call and after its result was dropped
NoSession ==
    [state |-> "idle", domain |-> << >>, leaf |-> None, chain_len |-> 0, pending |-> {},
     attempts |-> 0, result |-> None, wrapped |-> None]

\* fn openssl_verify_fn(domain, preverify_ok, x509_ctx) -> bool
openssl_verify_fn(dom, preverify_ok, x509_ctx) ==
    verify_callback(dom, preverify_ok, x509_ctx)

(***************************************************************************)
(* ServoSslConnector::connect and ServoSslClient::wrap_client: the session *)
(* of a call is [state, domain, leaf, chain_len, pending, attempts, result, *)
(* wrapped]; attempts counts the ssl.connect calls made, result is the     *)
(* Option of what connect returned and wrapped of what wrap_client did.    *)
(***************************************************************************)
\* line 108
ErrSsl == "Err(hyper::Error::Ssl)"

\* line 107
OkStream == "Ok(openssl::ssl::SslStream)"

\* line 76
OkSslStream == "Ok(hyper_openssl::SslStream)"

\* wrap_client, lines 75-78: the match on the result of connect
wrap_client(r) == IF r = OkStream THEN OkSslStream ELSE r

\* connect, lines 94-106: a fresh Ssl for the domain, its callback installed,
\* and the one call of ssl.connect(stream) begun; the peer presents n certificates
new_session(dom, leaf, n) ==
    [state |-> "handshake", domain |-> dom, leaf |-> leaf, chain_len |-> n,
     pending |-> 0..(n - 1), attempts |-> 1, result |-> None, wrapped |-> None]

\* a connect that starts the handshake over once when it failed
handshake_failed_retry(s) ==
    IF s.attempts < 2
    THEN [s EXCEPT !.pending = 0..(s.chain_len - 1), !.attempts = s.attempts + 1]
    ELSE [s EXCEPT !.state = "error", !.pending = {}, !.result = Some(ErrSsl),
                   !.wrapped = Some(ErrSsl)]

\* line 108: ssl.connect returned Err(err)
handshake_failed(s) ==
    [s EXCEPT !.state = "error", !.pending = {}, !.result = Some(ErrSsl),
              !.wrapped = Some(wrap_client(ErrSsl))]

\* line 107: ssl.connect returned Ok(stream)
handshake_done(s) ==
    [s EXCEPT !.state = "stream", !.result = Some(OkStream),
              !.wrapped = Some(wrap_client(OkStream))]

(***************************************************************************)
(* create_http_connector(certificate_file).  The file is one of: "missing" *)
(* (no such path), "not_pem" (a file without any PEM section), "bad_pem"   *)
(* (a PEM section whose contents do not decode) and "valid" (a bundle of   *)
(* PEM certificates).  The connector is [status, certificate_file,         *)
(* context, roots]; a panic leaves the caller without a value.             *)
(***************************************************************************)
BundleFiles == { "missing", "not_pem", "bad_pem", "valid" }

\* a cipher list that opens with a 3DES suite and a suite without forward secrecy
DEFAULT_CIPHERS_legacy_first ==
    << << "ECDHE", "RSA", "DES", "CBC3", "SHA" >>,
       << "AES128", "SHA" >>,
       << "ECDHE", "ECDSA", "AES128", "GCM", "SHA256" >>,
       << "ECDHE", "RSA", "AES128", "GCM", "SHA256" >> >>

\* lines 29-39, const DEFAULT_CIPHERS: the ':'-separated suites in the order of
\* the string, each suite as its '-'-separated words
DEFAULT_CIPHERS ==
    << << "ECDHE", "ECDSA", "AES128", "GCM", "SHA256" >>,
       << "ECDHE", "RSA", "AES128", "GCM", "SHA256" >>,
       << "ECDHE", "ECDSA", "AES256", "GCM", "SHA384" >>,
       << "ECDHE", "RSA", "AES256", "GCM", "SHA384" >>,
       << "DHE", "RSA", "AES128", "GCM", "SHA256" >>,
       << "ECDHE", "ECDSA", "AES128", "SHA256" >>,
       << "ECDHE", "RSA", "AES128", "SHA256" >>,
       << "ECDHE", "ECDSA", "AES256", "SHA384" >>,
       << "ECDHE", "RSA", "AES256", "SHA384" >>,
       << "ECDHE", "ECDSA", "AES128", "SHA" >>,
       << "ECDHE", "RSA", "AES128", "SHA" >>,
       << "ECDHE", "ECDSA", "AES256", "SHA" >>,
       << "ECDHE", "RSA", "AES256", "SHA" >>,
       << "DHE", "RSA", "AES128", "SHA256" >>,
       << "DHE", "RSA", "AES128", "SHA" >>,
       << "DHE", "RSA", "AES256", "SHA256" >>,
       << "DHE", "RSA", "AES256", "SHA" >>,
       << "ECDHE", "RSA", "DES", "CBC3", "SHA" >>,
       << "ECDHE", "ECDSA", "DES", "CBC3", "SHA" >>,
       << "AES128", "GCM", "SHA256" >>,
       << "AES256", "GCM", "SHA384" >>,
       << "AES128", "SHA256" >>,
       << "AES256", "SHA256" >>,
       << "AES128", "SHA" >>,
       << "AES256", "SHA" >> >>

\* line 45
SSL_OPTIONS == { "SSL_OP_NO_SSLV2", "SSL_OP_NO_SSLV3", "SSL_OP_NO_COMPRESSION" }

\* line 42, SslContextBuilder::new(SslMethod::tls()): nothing loaded, the
\* library's own cipher list, no option set by this code, no callback
SslContextBuilder_new ==
    [ca_file |-> FALSE, cipher_list |-> << >>, options |-> {}, verify_callback |-> None]

\* line 44, SslContextBuilder::set_cipher_list
set_cipher_list(ctx, list) == [ctx EXCEPT !.cipher_list = list]

\* a set_options that takes effect only once certificates were loaded
set_options_if_ca_loaded(ctx, opts) ==
    IF ctx.ca_file THEN [ctx EXCEPT !.options = ctx.options \cup opts] ELSE ctx

\* line 45, SslContextBuilder::set_options: the bits are or-ed into the context's
set_options(ctx, opts) == [ctx EXCEPT !.options = ctx.options \cup opts]

\* line 43, SslContextBuilder::set_ca_file: whether certificates were loaded
\* into the context's store (the Result is dropped by the caller)
set_ca_file(file) == file = "valid"

\* line 48, File::open(certificate_file): is it Ok
file_open(file) == file # "missing"

\* line 51, RootCertStore::add_pem_file: None for Err(()), else Some of the
\* roots added to the store
add_pem_file(file) ==
    IF file = "valid" THEN Some({ "root" })
    ELSE IF file = "not_pem" THEN Some({})
    ELSE None

\* before create_http_connector is called
NotBuilt ==
    [status |-> "unbuilt", certificate_file |-> None, context |-> None, roots |-> None]

\* an unwrap() of lines 48 or 51 panicked
Panicked(file) ==
    [status |-> "panicked", certificate_file |-> Some(file), context |-> None,
     roots |-> None]

\* lines 42-45: the context the builder holds when context.build() is called
build_context(file) ==
    set_options(
        set_cipher_list([SslContextBuilder_new EXCEPT !.ca_file = set_ca_file(file)],
                        DEFAULT_CIPHERS),
        SSL_OPTIONS)

\* fn create_http_connector(certificate_file) -> Arc<Pool<Connector>>
create_http_connector(file) ==
    IF ~file_open(file) THEN Panicked(file)
    ELSE IF add_pem_file(file) = None THEN Panicked(file)
    ELSE [status |-> "built",
          certificate_file |-> Some(file),
          context |-> Some(build_context(file)),
          roots |-> Some(add_pem_file(file)[1])]

\* a connect that installs its callback on the shared context
connect_connector_shared_callback(conn, dom) ==
    [conn EXCEPT !.context = Some([conn.context[1] EXCEPT !.verify_callback = Some(dom)])]

\* connect, lines 92-102, takes &self: Ssl::new(&self.context) and
\* self.roots.clone() read the connector, the hostname and the callback are
\* set on the new Ssl; this is the connector after the call
connect_connector(conn, dom) == conn

\* a closure that reads the domain of the latest handshake begun on the connector
closure_domain_latest(sess, c) ==
    LET live == { d \in DOMAIN sess : sess[d].state = "handshake" }
    IN  sess[CHOOSE d \in live : \A e \in live : e <= d].domain

\* lines 96-100: let domain = domain.to_owned(); move |p, x| ...(&domain, p, x):
\* the domain the closure of session c passes to openssl_verify_fn
closure_domain(sess, c) == sess[c].domain

(***************************************************************************)
(* rustls_verify and the rustls::verify_server_cert it calls at line 136.  *)
(* The library checks the chain against the roots and then the end-entity  *)
(* certificate against the name, by webpki's rules: the name must be a DNS *)
(* name (an IP literal is none), only dNSName entries of the               *)
(* subjectAltName are consulted (never the Common Name), comparison is     *)
(* ASCII case-insensitive, and a presented wildcard is "*." followed by at *)
(* least two labels.  x509_ctx carries chain, the Option of the presented  *)
(* certificates; every modelled chain is issued by the authority "root".   *)
(***************************************************************************)
UPPER ==
    << "A", "B", "C", "D", "E", "F", "G", "H", "I", "J", "K", "L", "M",
       "N", "O", "P", "Q", "R", "S", "T", "U", "V", "W", "X", "Y", "Z" >>

LOWER ==
    << "a", "b", "c", "d", "e", "f", "g", "h", "i", "j", "k", "l", "m",
       "n", "o", "p", "q", "r", "s", "t", "u", "v", "w", "x", "y", "z" >>

DIGITS == << "0", "1", "2", "3", "4", "5", "6", "7", "8", "9" >>

ascii_lower_char(ch) ==
    IF \E i \in 1..Len(UPPER) : UPPER[i] = ch
    THEN LOWER[CHOOSE i \in 1..Len(UPPER) : UPPER[i] = ch]
    ELSE ch

ascii_lower(s) == [i \in 1..Len(s) |-> ascii_lower_char(s[i])]

is_digit(ch) == \E i \in 1..Len(DIGITS) : DIGITS[i] = ch

is_label_char(ch) ==
    \/ \E i \in 1..Len(LOWER) : LOWER[i] = ch \/ UPPER[i] = ch
    \/ is_digit(ch)
    \/ ch = "-"
    \/ ch = "_"

\* the labels of a name whose '.' are at the 0-based offsets idx
labels_at(s, idx) ==
    [k \in 1..(Len(idx) + 1) |->
        Slice(s, IF k = 1 THEN 0 ELSE idx[k - 1] + 1,
                 IF k = Len(idx) + 1 THEN Len(s) ELSE idx[k])]

labels_of(s) == labels_at(s, match_indices(s, "."))

is_valid_label(l) ==
    /\ Len(l) > 0
    /\ \A i \in 1..Len(l) : is_label_char(l[i])
    /\ l[1] # "-"
    /\ l[Len(l)] # "-"

\* labels that make a DNS name: none empty or malformed, the last not numeric
are_valid_labels(ls) ==
    /\ \A k \in 1..Len(ls) : is_valid_label(ls[k])
    /\ \E i \in 1..Len(ls[Len(ls)]) : ~is_digit(ls[Len(ls)][i])

\* the name a server is asked for: a DNS name, possibly absolute
is_valid_reference_dns_id(s) == are_valid_labels(labels_of(strip_dot(s)))

\* a dNSName of a certificate: relative, and "*." only before two labels or more
is_valid_presented_dns_id(s) ==
    IF starts_with(s, << "*", "." >>)
    THEN are_valid_labels(labels_of(SliceFrom(s, 2)))
         /\ Len(labels_of(SliceFrom(s, 2))) >= 2
    ELSE are_valid_labels(labels_of(s))

presented_dns_id_matches_lowered(p, r) ==
    IF starts_with(p, << "*", "." >>)
    THEN contains(r, ".") /\ SliceFrom(p, 1) = SliceFrom(r, find(r, ".")[1])
    ELSE p = r

presented_dns_id_matches_reference_dns_id(presented, reference) ==
    /\ is_valid_presented_dns_id(presented)
    /\ presented_dns_id_matches_lowered(ascii_lower(presented),
                                        ascii_lower(strip_dot(reference)))

\* EndEntityCert::verify_is_valid_for_dns_name
verify_is_valid_for_dns_name(x509, dns_name) ==
    /\ is_valid_reference_dns_id(dns_name)
    /\ x509.san # None
    /\ \E i \in 1..Len(x509.san[1]) :
           /\ x509.san[1][i].kind = "dns"
           /\ presented_dns_id_matches_reference_dns_id(x509.san[1][i].data, dns_name)

\* EndEntityCert::verify_is_valid_tls_server_cert: the chain leads to a root
verify_is_valid_tls_server_cert(roots, presented_certs) == "root" \in roots

\* rustls::verify_server_cert(roots, presented_certs, dns_name).is_ok()
verify_server_cert(roots, presented_certs, dns_name) ==
    IF Len(presented_certs) = 0 THEN FALSE
    ELSE /\ verify_is_valid_tls_server_cert(roots, presented_certs)
         /\ verify_is_valid_for_dns_name(presented_certs[1], dns_name)

\* a rustls_verify that defers to the library's verdict as verify_callback does
rustls_verify_gated(dom, roots, preverify_ok, x509_ctx) ==
    IF ~preverify_ok \/ x509_ctx.error_depth # 0 THEN preverify_ok
    ELSE verify_server_cert(roots,
                            IF x509_ctx.chain # None THEN x509_ctx.chain[1] ELSE << >>,
                            dom)

\* fn rustls_verify(domain, roots, preverify_ok, x509_ctx) -> bool
rustls_verify(dom, roots, preverify_ok, x509_ctx) ==
    verify_server_cert(roots,
                       IF x509_ctx.chain # None THEN x509_ctx.chain[1] ELSE << >>,
                       dom)

NoModeResult == [openssl |-> None, rustls |-> None]

(***************************************************************************)
(* Bounds of the inputs                                                    *)
(***************************************************************************)
\* labels of a generated DNS name
MaxLabels == 3

\* trailing dots of a generated DNS name
MaxDots == 1

\* entries of a generated subjectAltName stack
MaxSan == 2

\* Common Name entries of a generated subject
MaxCn == 2

\* certificates of a presented chain (the leaf and the ones above it)
MaxChain == 2

\* connect calls in progress at the same time on one connector
MaxConns == 2

Conns == 1..MaxConns

\* no connect call in progress
NoSessions == [c \in Conns |-> NoSession]

NoCalls == [c \in Conns |-> << >>]

(***************************************************************************)
(* Names                                                                   *)
(***************************************************************************)
dot == << "." >>

example == << "e", "x", "a", "m", "p", "l", "e" >>

com == << "c", "o", "m" >>

a_star_a == << "a", ".", "*", ".", "a" >>

a_b_a == << "a", ".", "b", ".", "a" >>

Example_com == << "E" >> \o SliceFrom(example, 1) \o dot \o com

example_com == example \o dot \o com

api_example_com == << "a", "p", "i" >> \o dot \o example_com

foo_example_com == << "f", "o", "o" >> \o dot \o example_com

foo_bar_example_com == << "f", "o", "o", ".", "b", "a", "r" >> \o dot \o example_com

star_example_com == << "*" >> \o dot \o example_com

star_com == << "*" >> \o dot \o com

xn_star_example_com == ACE_PREFIX \o << "*" >> \o dot \o example_com

xn_abc_example_com == ACE_PREFIX \o << "a", "b", "c" >> \o dot \o example_com

abstarba_example_com == << "a", "b", "*", "b", "a" >> \o dot \o example_com

aba_example_com == << "a", "b", "a" >> \o dot \o example_com

abba_example_com == << "a", "b", "b", "a" >> \o dot \o example_com

ip_192_0_2_1 == << "1", "9", "2", ".", "0", ".", "2", ".", "1" >>

ip_192_0_2_2 == << "1", "9", "2", ".", "0", ".", "2", ".", "2" >>

star_0_2_1 == << "*", ".", "0", ".", "2", ".", "1" >>

ip_2001_db8__1 == << "2", "0", "0", "1", ":", "d", "b", "8", ":", ":", "1" >>

ip___1 == << ":", ":", "1" >>

\* the labels joined by '.'
Dotted(labels) ==
    LET RECURSIVE Join(_)
        Join(i) == IF i > Len(labels) THEN << >>
                   ELSE IF i = Len(labels) THEN labels[i]
                   ELSE labels[i] \o dot \o Join(i + 1)
    IN  Join(1)

Dots(n) == [k \in 1..n |-> "."]

SeqsUpTo(S, n) == UNION { [1..k -> S] : k \in 0..n }

\* a first label, up to MaxLabels - 1 further labels, up to MaxDots trailing dots
GenNames(firsts, rests) ==
    { Dotted(<< f >> \o r) \o Dots(d) :
        f \in firsts, r \in SeqsUpTo(rests, MaxLabels - 1), d \in 0..MaxDots }

PatternFirstLabels ==
    { << "*" >>, << "a" >>, << "b" >>, << "a", "*" >>, << "*", "b" >>,
      << "a", "*", "b" >>, << "a", "b" >>,
      ACE_PREFIX \o << "a" >>, ACE_PREFIX \o << "*" >> }

PatternRestLabels == { << "a" >>, << "*" >> }

HostFirstLabels ==
    { << "a" >>, << "b" >>, << "a", "b" >>, << "a", "a", "b" >>, << "*" >>,
      ACE_PREFIX \o << "a" >>, ACE_PREFIX \o << "*" >> }

HostRestLabels == { << "a" >>, << "b" >> }

ExamplePatterns ==
    { star_example_com, example_com, star_com, xn_star_example_com,
      xn_abc_example_com, abstarba_example_com, star_0_2_1, ip_192_0_2_1 }

ExampleHosts ==
    { api_example_com, example_com, foo_example_com, foo_bar_example_com,
      xn_abc_example_com, xn_star_example_com, aba_example_com, abba_example_com,
      star_com, ip_192_0_2_1, ip_192_0_2_2, ip_192_0_2_1 \o dot,
      example_com \o dot, Example_com, a_star_a }

DnsPatterns == GenNames(PatternFirstLabels, PatternRestLabels) \cup ExamplePatterns

DnsHostnames == GenNames(HostFirstLabels, HostRestLabels) \cup ExampleHosts

(***************************************************************************)
(* matches_dns on its own: the inputs its two callers can pass             *)
(***************************************************************************)
InitDns ==
    /\ pattern \in DnsPatterns
    /\ hostname \in DnsHostnames
    \* verify_subject_alt_names passes false and calls only when the host does not
    \* parse; verify_subject_name passes domain.parse::<IpAddr>().is_ok()
    /\ is_ip = (parse_ip(hostname) # None)
    /\ dns_result = None
    /\ wildcard_result = None
    /\ domain = << >> /\ cert = None /\ host_result = None
    /\ mode_result = NoModeResult
    /\ rustls_call = None
    /\ ssl = NoSession
    /\ calls = << >>
    /\ connector = create_http_connector("valid")
    /\ sessions = NoSessions
    /\ session_calls = NoCalls
    /\ origins = << >> /\ opaque_counter = 0 /\ xow = None /\ xow_result = None
    /\ children = << >> /\ created = 0 /\ insert_call = None

MatchesDns ==
    /\ dns_result = None
    /\ dns_result' = Some(matches_dns(pattern, hostname, is_ip))
    /\ wildcard_result' = Some(matches_wildcard(strip_dot(pattern), strip_dot(hostname), is_ip))
    /\ UNCHANGED << pattern, hostname, is_ip >>
    /\ UNCHANGED hostVars
    /\ UNCHANGED originVars
    /\ UNCHANGED tableVars
    /\ UNCHANGED sslVars
    /\ UNCHANGED poolVars

NextDns == MatchesDns

SpecDns == InitDns /\ [][NextDns]_vars

(***************************************************************************)
(* Certificates and hosts of verify_hostname                               *)
(***************************************************************************)
Dns(name) == [kind |-> "dns", data |-> name]

Email(name) == [kind |-> "email", data |-> name]

Ip(bytes) == [kind |-> "ip", data |-> bytes]

\* 2001:db8::1 in network byte order
bytes_2001_db8__1 == << 32, 1, 13, 184, 0, 0, 0, 0, 0, 0, 0, 0, 0, 0, 0, 1 >>

\* the same address with the two bytes of every segment exchanged
bytes_swapped_2001_db8__1 == << 1, 32, 184, 13, 0, 0, 0, 0, 0, 0, 0, 0, 0, 0, 1, 0 >>

\* ::ffff:192.0.2.1
bytes_mapped_192_0_2_1 == << 0, 0, 0, 0, 0, 0, 0, 0, 0, 0, 255, 255, 192, 0, 2, 1 >>

GeneralNames ==
    { Dns(star_example_com), Dns(example_com), Dns(ip_192_0_2_1), Dns(star_0_2_1),
      Dns(ip_2001_db8__1), Email(api_example_com),
      Ip(<< 192, 0, 2, 1 >>), Ip(<< 192, 0, 2, 2 >>), Ip(<< 192, 0, 2 >>),
      Ip(bytes_2001_db8__1), Ip(bytes_swapped_2001_db8__1), Ip(bytes_mapped_192_0_2_1) }

CommonNames ==
    { [utf8 |-> TRUE, data |-> example_com], [utf8 |-> TRUE, data |-> star_example_com],
      [utf8 |-> TRUE, data |-> ip_192_0_2_1], [utf8 |-> TRUE, data |-> star_0_2_1],
      [utf8 |-> FALSE, data |-> example_com] }

\* with a subjectAltName extension (and at most one Common Name), or without one
Certs ==
    { [san |-> Some(names), cn |-> cn] :
        names \in SeqsUpTo(GeneralNames, MaxSan), cn \in SeqsUpTo(CommonNames, 1) }
    \cup { [san |-> None, cn |-> cn] : cn \in SeqsUpTo(CommonNames, MaxCn) }

Hosts ==
    { api_example_com, example_com, example_com \o dot, foo_bar_example_com,
      ip_192_0_2_1, ip_192_0_2_2, ip_192_0_2_1 \o dot, ip_2001_db8__1, ip___1 }

(***************************************************************************)
(* verify_hostname on its own                                              *)
(***************************************************************************)
InitHost ==
    /\ domain \in Hosts
    /\ cert \in Certs
    /\ host_result = None
    /\ mode_result = NoModeResult
    /\ rustls_call = None
    /\ pattern = << >> /\ hostname = << >> /\ is_ip = FALSE /\ dns_result = None
    /\ wildcard_result = None
    /\ ssl = NoSession
    /\ calls = << >>
    /\ connector = create_http_connector("valid")
    /\ sessions = NoSessions
    /\ session_calls = NoCalls
    /\ origins = << >> /\ opaque_counter = 0 /\ xow = None /\ xow_result = None
    /\ children = << >> /\ created = 0 /\ insert_call = None

VerifyHostname ==
    /\ host_result = None
    /\ host_result' = Some(verify_hostname(domain, cert))
    /\ UNCHANGED << domain, cert, mode_result, rustls_call >>
    /\ UNCHANGED dnsVars
    /\ UNCHANGED originVars
    /\ UNCHANGED tableVars
    /\ UNCHANGED sslVars
    /\ UNCHANGED poolVars

NextHost == VerifyHostname

SpecHost == InitHost /\ [][NextHost]_vars

(***************************************************************************)
(* ServoSslConnector::connect and the handshake it drives.  ssl is the     *)
(* session of the call: [state, domain, leaf, chain_len, pending], leaf the *)
(* Option of the certificate the context yields at depth 0, chain_len the  *)
(* number of depths of the presented chain and pending the depths the      *)
(* library has still to verify.  calls logs the callback invocations.      *)
(***************************************************************************)
\* the certificate of an authority above the leaf: it names no host
CA == [san |-> None, cn |-> << >>]

\* the hosts and leaves of the handshakes: at most one name of each kind
ConnHosts == { api_example_com, example_com, ip_192_0_2_1, ip_192_0_2_1 \o dot }

ConnCerts == { c \in Certs : (c.san # None => Len(c.san[1]) <= 1) /\ Len(c.cn) <= 1 }

\* X509StoreContextRef::current_cert at a depth of the session
current_cert(depth) == IF depth = 0 THEN ssl.leaf ELSE Some(CA)

Init ==
    /\ ssl = NoSession
    /\ calls = << >>
    /\ connector = create_http_connector("valid")
    /\ sessions = NoSessions
    /\ session_calls = NoCalls
    /\ origins = << >> /\ opaque_counter = 0 /\ xow = None /\ xow_result = None
    /\ children = << >> /\ created = 0 /\ insert_call = None
    /\ pattern = << >> /\ hostname = << >> /\ is_ip = FALSE /\ dns_result = None
    /\ wildcard_result = None
    /\ domain = << >> /\ cert = None /\ host_result = None
    /\ mode_result = NoModeResult
    /\ rustls_call = None

\* connect, lines 94-102: a fresh Ssl with the callback closed over the domain;
\* the peer presents a chain of n certificates
Connect(dom, leaf, n) ==
    /\ ssl.state = "idle"
    /\ ssl' = new_session(dom, leaf, n)
    /\ calls' = << >>
    /\ UNCHANGED dnsVars
    /\ UNCHANGED originVars
    /\ UNCHANGED tableVars
    /\ UNCHANGED hostVars
    /\ UNCHANGED poolVars

\* ssl.connect(stream) invokes the closure of line 99 for a depth still to verify;
\* a false return ends the handshake with an error
VerifyCallback(depth, preverify_ok) ==
    /\ ssl.state = "handshake"
    /\ depth \in ssl.pending
    /\ LET x509_ctx == [error_depth |-> depth, current_cert |-> current_cert(depth)]
           r        == openssl_verify_fn(ssl.domain, preverify_ok, x509_ctx)
       IN  /\ calls' = Append(calls, [depth |-> depth, preverify_ok |-> preverify_ok,
                                      current_cert |-> x509_ctx.current_cert,
                                      ret |-> r.ret, hostname |-> r.hostname])
           /\ ssl' = IF r.ret
                     THEN [ssl EXCEPT !.pending = ssl.pending \ {depth}]
                     ELSE handshake_failed(ssl)
    /\ UNCHANGED dnsVars
    /\ UNCHANGED originVars
    /\ UNCHANGED tableVars
    /\ UNCHANGED hostVars
    /\ UNCHANGED poolVars

\* line 107: every depth was accepted, connect returns Ok(stream)
HandshakeOk ==
    /\ ssl.state = "handshake"
    /\ ssl.pending = {}
    /\ ssl' = handshake_done(ssl)
    /\ UNCHANGED calls
    /\ UNCHANGED dnsVars
    /\ UNCHANGED originVars
    /\ UNCHANGED tableVars
    /\ UNCHANGED hostVars
    /\ UNCHANGED poolVars

\* ssl.connect(stream) fails for a reason other than a callback's verdict
\* (the peer closes the stream, no shared protocol version or cipher)
HandshakeError ==
    /\ ssl.state = "handshake"
    /\ ssl' = handshake_failed(ssl)
    /\ UNCHANGED calls
    /\ UNCHANGED dnsVars
    /\ UNCHANGED originVars
    /\ UNCHANGED tableVars
    /\ UNCHANGED hostVars
    /\ UNCHANGED poolVars

\* the caller is done with the result of the call (the stream, or the
\* hyper::Error::Ssl of line 108) and the connector is free for the next one
Release ==
    /\ ssl.state \in { "stream", "error" }
    /\ ssl' = NoSession
    /\ calls' = << >>
    /\ UNCHANGED dnsVars
    /\ UNCHANGED originVars
    /\ UNCHANGED tableVars
    /\ UNCHANGED hostVars
    /\ UNCHANGED poolVars

Next ==
    \/ \E dom \in ConnHosts, leaf \in { None } \cup { Some(c) : c \in ConnCerts },
          n \in 1..MaxChain : Connect(dom, leaf, n)
    \/ \E depth \in 0..(MaxChain - 1), preverify_ok \in BOOLEAN :
          VerifyCallback(depth, preverify_ok)
    \/ HandshakeOk
    \/ HandshakeError
    \/ Release

Spec == Init /\ [][Next]_vars

(***************************************************************************)
(* The two verification modes of connect's closure (lines 100 and 101) on  *)
(* the same leaf and host, at the leaf depth of a chain the library found  *)
(* valid against the connector's trust bundle.                             *)
(***************************************************************************)
leaf_ctx(x509) ==
    [error_depth |-> 0, current_cert |-> Some(x509), chain |-> Some(<< x509, CA >>)]

InitModes ==
    /\ domain \in Hosts
    /\ cert \in ConnCerts
    /\ host_result = None
    /\ mode_result = NoModeResult
    /\ rustls_call = None
    /\ pattern = << >> /\ hostname = << >> /\ is_ip = FALSE /\ dns_result = None
    /\ wildcard_result = None
    /\ ssl = NoSession
    /\ calls = << >>
    /\ connector = create_http_connector("valid")
    /\ sessions = NoSessions
    /\ session_calls = NoCalls
    /\ origins = << >> /\ opaque_counter = 0 /\ xow = None /\ xow_result = None
    /\ children = << >> /\ created = 0 /\ insert_call = None

OpensslVerifyFn ==
    /\ mode_result.openssl = None
    /\ mode_result' =
          [mode_result EXCEPT
              !.openssl = Some(openssl_verify_fn(domain, TRUE, leaf_ctx(cert)).ret)]
    /\ UNCHANGED << domain, cert, host_result, rustls_call >>
    /\ UNCHANGED dnsVars
    /\ UNCHANGED originVars
    /\ UNCHANGED tableVars
    /\ UNCHANGED sslVars
    /\ UNCHANGED poolVars

RustlsVerify ==
    /\ mode_result.rustls = None
    /\ mode_result' =
          [mode_result EXCEPT
              !.rustls = Some(rustls_verify(domain, connector.roots[1], TRUE,
                                            leaf_ctx(cert)))]
    /\ UNCHANGED << domain, cert, host_result, rustls_call >>
    /\ UNCHANGED dnsVars
    /\ UNCHANGED originVars
    /\ UNCHANGED tableVars
    /\ UNCHANGED sslVars
    /\ UNCHANGED poolVars

NextModes == OpensslVerifyFn \/ RustlsVerify

SpecModes == InitModes /\ [][NextModes]_vars

(***************************************************************************)
(* rustls_verify as the closure of line 101 would be invoked: at any depth *)
(* of the chain, with either verdict of the library, the context holding   *)
(* the presented chain or none, the roots those of a connector built from  *)
(* a bundle with or without certificates.                                  *)
(***************************************************************************)
\* X509StoreContextRef::chain of a peer that presented n certificates
presented_chain(x509, n) == << x509 >> \o [k \in 1..(n - 1) |-> CA]

InitRustls ==
    /\ domain \in Hosts
    /\ cert \in ConnCerts
    /\ connector \in { create_http_connector("valid"), create_http_connector("not_pem") }
    /\ rustls_call = None
    /\ host_result = None
    /\ mode_result = NoModeResult
    /\ pattern = << >> /\ hostname = << >> /\ is_ip = FALSE /\ dns_result = None
    /\ wildcard_result = None
    /\ ssl = NoSession
    /\ calls = << >>
    /\ sessions = NoSessions
    /\ session_calls = NoCalls
    /\ origins = << >> /\ opaque_counter = 0 /\ xow = None /\ xow_result = None
    /\ children = << >> /\ created = 0 /\ insert_call = None

RustlsVerifyAt(preverify_ok, depth, chain) ==
    /\ rustls_call = None
    /\ rustls_call' =
          Some([preverify_ok |-> preverify_ok, error_depth |-> depth, chain |-> chain,
                ret |-> rustls_verify(domain, connector.roots[1], preverify_ok,
                                      [error_depth |-> depth,
                                       current_cert |-> IF depth = 0 THEN Some(cert)
                                                        ELSE Some(CA),
                                       chain |-> chain])])
    /\ UNCHANGED << domain, cert, host_result, mode_result >>
    /\ UNCHANGED dnsVars
    /\ UNCHANGED originVars
    /\ UNCHANGED tableVars
    /\ UNCHANGED sslVars
    /\ UNCHANGED poolVars

NextRustls ==
    \E preverify_ok \in BOOLEAN, n \in 1..MaxChain, depth \in 0..(MaxChain - 1),
       has_chain \in BOOLEAN :
        /\ depth < n
        /\ RustlsVerifyAt(preverify_ok, depth,
                          IF has_chain THEN Some(presented_chain(cert, n)) ELSE None)

SpecRustls == InitRustls /\ [][NextRustls]_vars

(***************************************************************************)
(* One connector from its construction on, shared by concurrent connect    *)
(* calls: sessions[c] is the session of call c and session_calls[c] its    *)
(* callback invocations, each with the domain its closure passed.  The     *)
(* peers present their leaf only.                                          *)
(***************************************************************************)
PoolHosts == { api_example_com, example_com }

PoolCerts ==
    { [san |-> Some(<< Dns(star_example_com) >>), cn |-> << >>],
      [san |-> None, cn |-> << [utf8 |-> TRUE, data |-> example_com] >>] }

InitPool ==
    /\ connector = NotBuilt
    /\ sessions = NoSessions
    /\ session_calls = NoCalls
    /\ origins = << >> /\ opaque_counter = 0 /\ xow = None /\ xow_result = None
    /\ children = << >> /\ created = 0 /\ insert_call = None
    /\ ssl = NoSession
    /\ calls = << >>
    /\ pattern = << >> /\ hostname = << >> /\ is_ip = FALSE /\ dns_result = None
    /\ wildcard_result = None
    /\ domain = << >> /\ cert = None /\ host_result = None
    /\ mode_result = NoModeResult
    /\ rustls_call = None

CreateHttpConnector(file) ==
    /\ connector = NotBuilt
    /\ connector' = create_http_connector(file)
    /\ UNCHANGED << sessions, session_calls >>
    /\ UNCHANGED dnsVars
    /\ UNCHANGED originVars
    /\ UNCHANGED tableVars
    /\ UNCHANGED hostVars
    /\ UNCHANGED sslVars

\* connect, lines 94-106, as call c on the connector
ConnectOn(c, dom, leaf) ==
    /\ connector.status = "built"
    /\ sessions[c].state = "idle"
    /\ sessions' = [sessions EXCEPT ![c] = new_session(dom, Some(leaf), 1)]
    /\ session_calls' = [session_calls EXCEPT ![c] = << >>]
    /\ connector' = connect_connector(connector, dom)
    /\ UNCHANGED dnsVars
    /\ UNCHANGED originVars
    /\ UNCHANGED tableVars
    /\ UNCHANGED hostVars
    /\ UNCHANGED sslVars

\* the library invokes the closure of session c on the leaf; with no
\* certificate loaded by set_ca_file its own chain verification has failed
VerifyCallbackOn(c, preverify_ok) ==
    /\ sessions[c].state = "handshake"
    /\ 0 \in sessions[c].pending
    /\ ~connector.context[1].ca_file => ~preverify_ok
    /\ LET dom      == closure_domain(sessions, c)
           x509_ctx == [error_depth |-> 0, current_cert |-> sessions[c].leaf]
           r        == openssl_verify_fn(dom, preverify_ok, x509_ctx)
       IN  /\ session_calls' =
                  [session_calls EXCEPT ![c] =
                      Append(@, [depth |-> 0, preverify_ok |-> preverify_ok,
                                 current_cert |-> x509_ctx.current_cert,
                                 domain |-> dom, ret |-> r.ret,
                                 hostname |-> r.hostname])]
           /\ sessions' =
                  [sessions EXCEPT ![c] =
                      IF r.ret THEN [@ EXCEPT !.pending = {}] ELSE handshake_failed(@)]
    /\ UNCHANGED connector
    /\ UNCHANGED dnsVars
    /\ UNCHANGED originVars
    /\ UNCHANGED tableVars
    /\ UNCHANGED hostVars
    /\ UNCHANGED sslVars

HandshakeOkOn(c) ==
    /\ sessions[c].state = "handshake"
    /\ sessions[c].pending = {}
    /\ sessions' = [sessions EXCEPT ![c] = handshake_done(@)]
    /\ UNCHANGED << connector, session_calls >>
    /\ UNCHANGED dnsVars
    /\ UNCHANGED originVars
    /\ UNCHANGED tableVars
    /\ UNCHANGED hostVars
    /\ UNCHANGED sslVars

HandshakeErrorOn(c) ==
    /\ sessions[c].state = "handshake"
    /\ sessions' = [sessions EXCEPT ![c] = handshake_failed(@)]
    /\ UNCHANGED << connector, session_calls >>
    /\ UNCHANGED dnsVars
    /\ UNCHANGED originVars
    /\ UNCHANGED tableVars
    /\ UNCHANGED hostVars
    /\ UNCHANGED sslVars

\* the caller of call c is done with its result
ReleaseOn(c) ==
    /\ sessions[c].state \in { "stream", "error" }
    /\ sessions' = [sessions EXCEPT ![c] = NoSession]
    /\ session_calls' = [session_calls EXCEPT ![c] = << >>]
    /\ UNCHANGED connector
    /\ UNCHANGED dnsVars
    /\ UNCHANGED originVars
    /\ UNCHANGED tableVars
    /\ UNCHANGED hostVars
    /\ UNCHANGED sslVars

NextPool ==
    \/ \E file \in BundleFiles : CreateHttpConnector(file)
    \/ \E c \in Conns, dom \in PoolHosts, leaf \in PoolCerts : ConnectOn(c, dom, leaf)
    \/ \E c \in Conns, preverify_ok \in BOOLEAN : VerifyCallbackOn(c, preverify_ok)
    \/ \E c \in Conns : HandshakeOkOn(c)
    \/ \E c \in Conns : HandshakeErrorOn(c)
    \/ \E c \in Conns : ReleaseOn(c)

SpecPool == InitPool /\ [][NextPool]_vars

(***************************************************************************)
(* Properties of the verification callback and of connect (Spec)           *)
(***************************************************************************)
\* the leaf whose only identity is the SAN entry "*.example.com"
WildcardLeaf == [san |-> Some(<< Dns(star_example_com) >>), cn |-> << >>]

\* C1: invoked at depth 0 on a leaf that the hostname matcher rejects for the
\* requested host, verify_callback returns false whatever preverify is; with
\* SAN = ["*.example.com"] and preverify = true it returns true for
\* "api.example.com" and false for "example.com".
C1_LeafMismatchRejected ==
    \A i \in 1..Len(calls) :
        (calls[i].depth = 0 /\ calls[i].current_cert # None) =>
            /\ ~verify_hostname(ssl.domain, calls[i].current_cert[1])
                   => calls[i].ret = FALSE
            /\ (calls[i].preverify_ok /\ calls[i].current_cert[1] = WildcardLeaf
                    /\ ssl.domain = api_example_com) => calls[i].ret = TRUE
            /\ (calls[i].preverify_ok /\ calls[i].current_cert[1] = WildcardLeaf
                    /\ ssl.domain = example_com) => calls[i].ret = FALSE

C1_Witness ==
    \E i \in 1..Len(calls) :
        /\ calls[i].depth = 0
        /\ calls[i].preverify_ok
        /\ calls[i].current_cert = Some(WildcardLeaf)
        /\ ssl.domain = example_com
        /\ calls[i].ret = FALSE

\* C2: verify_callback never returns true at depth 0 when preverify is false,
\* even if the hostname matches the leaf.
C2_LeafPreverifyFailureKept ==
    \A i \in 1..Len(calls) :
        (calls[i].depth = 0 /\ ~calls[i].preverify_ok) => calls[i].ret = FALSE

C2_Witness ==
    \E i \in 1..Len(calls) :
        /\ calls[i].depth = 0
        /\ ~calls[i].preverify_ok
        /\ calls[i].current_cert # None
        /\ verify_hostname(ssl.domain, calls[i].current_cert[1])
        /\ calls[i].ret = FALSE

\* C3: when the context yields no certificate at depth 0, verify_callback
\* returns false.
C3_NoLeafRejected ==
    \A i \in 1..Len(calls) :
        (calls[i].depth = 0 /\ calls[i].current_cert = None) => calls[i].ret = FALSE

\* C4: connect yields a stream only if every callback invocation returned true,
\* with preverify true at every depth and the hostname matcher accepting the
\* leaf for the requested host, in whatever order the depths were verified.
C4_StreamOnlyIfAllAccepted ==
    ssl.state = "stream" =>
        /\ \A i \in 1..Len(calls) : calls[i].ret
        /\ \A d \in 0..(ssl.chain_len - 1) :
               \E i \in 1..Len(calls) : calls[i].depth = d /\ calls[i].preverify_ok
        /\ ssl.leaf # None
        /\ verify_hostname(ssl.domain, ssl.leaf[1])

\* C5: at a depth other than 0 verify_callback returns the preverify value and
\* makes no call to the hostname matcher.
C5_NonLeafDefersToPreverify ==
    \A i \in 1..Len(calls) :
        calls[i].depth # 0 =>
            calls[i].ret = calls[i].preverify_ok /\ calls[i].hostname = None

C5_Witness ==
    \E i \in 1..Len(calls) :
        calls[i].depth # 0 /\ ~calls[i].preverify_ok /\ calls[i].ret = FALSE

(***************************************************************************)
(* Properties of verify_hostname (SpecHost)                                *)
(***************************************************************************)
\* C6: when the leaf has one or more SAN entries of any type, the Common Name
\* is not consulted: verify_hostname is false when no SAN entry matches, also
\* when a Common Name matches the requested host.
C6_SanExcludesCommonName ==
    (host_result # None /\ cert.san # None /\ Len(cert.san[1]) >= 1
        /\ ~verify_subject_alt_names(domain, cert.san[1]))
    => host_result = Some(FALSE)

C6_Witness ==
    /\ host_result = Some(FALSE)
    /\ cert.san # None
    /\ Len(cert.san[1]) >= 1
    /\ verify_subject_name(domain, cert.cn)

\* C7: for a requested host that is an IP literal no name containing '*' is
\* what makes verify_hostname accept: with a SAN extension an accept comes from
\* an entry of IP-address type, without one from a Common Name free of '*'.
C7_NoWildcardForIpLiteral ==
    (host_result = Some(TRUE) /\ parse_ip(domain) # None) =>
        IF cert.san # None
        THEN \E i \in 1..Len(cert.san[1]) : cert.san[1][i].kind = "ip"
        ELSE Len(cert.cn) >= 1 /\ ~contains(cert.cn[1].data, "*")

C7_Witness ==
    /\ domain = ip_192_0_2_1
    /\ cert = [san |-> None, cn |-> << [utf8 |-> TRUE, data |-> star_0_2_1] >>]
    /\ host_result = Some(FALSE)

\* the bytes of an address in network order: 4 for IPv4, 16 for IPv6
AddrBytes(ip) ==
    IF ip.family = "V4" THEN ip.octets
    ELSE [k \in 1..16 |-> IF k % 2 = 1 THEN ip.segments[(k + 1) \div 2] \div 256
                          ELSE ip.segments[k \div 2] % 256]

\* C8: when the requested host parses as an IP address, the SAN check accepts
\* iff some entry of IP-address type holds exactly the bytes of the address
\* (4 for IPv4, 16 for IPv6); DNS entries and entries of another length never
\* match.
C8_IpSanByteEquality ==
    (host_result # None /\ cert.san # None /\ parse_ip(domain) # None) =>
        host_result[1] =
            (\E i \in 1..Len(cert.san[1]) :
                /\ cert.san[1][i].kind = "ip"
                /\ cert.san[1][i].data = AddrBytes(parse_ip(domain)[1]))

C8_Witness ==
    /\ domain = ip_192_0_2_1
    /\ cert.san = Some(<< Dns(ip_192_0_2_1), Ip(<< 192, 0, 2, 1 >>) >>)
    /\ host_result = Some(TRUE)

(***************************************************************************)
(* Properties of matches_dns (SpecDns)                                     *)
(***************************************************************************)
\* a pattern with a '*' and fewer than two '.'
FewDotsWildcard(p) == contains(p, "*") /\ Len(match_indices(p, ".")) < 2

\* C9, as stated: a pattern that contains '*' and has fewer than two '.'
\* matches no hostname at all.
C9_FewDotsNeverMatches ==
    (dns_result # None /\ FewDotsWildcard(pattern)) => dns_result = Some(FALSE)

\* C9, amended: a pattern that contains '*' and has fewer than two '.' is never
\* evaluated as a wildcard: it matches exactly the hostnames equal to it after
\* trailing-dot normalisation, hence no hostname free of '*'.
C9_FewDotsOnlyLiteral ==
    (dns_result # None /\ FewDotsWildcard(pattern)) =>
        /\ dns_result = Some(strip_dot(pattern) = strip_dot(hostname))
        /\ ~contains(hostname, "*") => dns_result = Some(FALSE)

C9_Witness ==
    pattern = star_com /\ hostname = example_com /\ dns_result = Some(FALSE)

\* C10: a pattern that starts with "xn--" is not wildcard-eligible: it matches
\* iff it equals the hostname after trailing-dot normalisation;
\* "xn--*.example.com" does not match "xn--abc.example.com".
C10_AcePrefixOnlyLiteral ==
    (dns_result # None /\ starts_with(pattern, ACE_PREFIX)) =>
        /\ dns_result = Some(strip_dot(pattern) = strip_dot(hostname))
        /\ (pattern = xn_star_example_com /\ hostname = xn_abc_example_com)
               => dns_result = Some(FALSE)

C10_Witness ==
    /\ pattern = xn_star_example_com
    /\ hostname = xn_abc_example_com
    /\ dns_result = Some(FALSE)

\* number of labels of a name: one more than its '.' count
Labels(s) == Len(match_indices(s, ".")) + 1

\* the text of a name from its first '.' onward
FromFirstDot(s) == SliceFrom(s, find(s, ".")[1])

\* C11: a wildcard covers exactly one label: matches_wildcard accepts only if
\* the pattern from its first '.' onward is identical to the hostname from its
\* first '.' onward, so an accepted hostname has as many labels as the pattern;
\* "*.example.com" matches "foo.example.com" and neither "foo.bar.example.com"
\* nor "example.com".
C11_WildcardCoversOneLabel ==
    wildcard_result # None =>
        /\ wildcard_result = Some(Some(TRUE)) =>
              /\ contains(strip_dot(pattern), ".")
              /\ contains(strip_dot(hostname), ".")
              /\ FromFirstDot(strip_dot(pattern)) = FromFirstDot(strip_dot(hostname))
              /\ Labels(strip_dot(pattern)) = Labels(strip_dot(hostname))
        /\ (pattern = star_example_com /\ hostname = foo_example_com)
              => dns_result = Some(TRUE)
        /\ (pattern = star_example_com /\ hostname \in { foo_bar_example_com, example_com })
              => dns_result = Some(FALSE)

C11_Witness ==
    /\ pattern = star_example_com
    /\ hostname = foo_bar_example_com
    /\ wildcard_result = Some(Some(FALSE))
    /\ dns_result = Some(FALSE)

\* the first '*' of the name comes after its first '.'
StarAfterFirstDot(s) ==
    /\ contains(s, "*")
    /\ contains(s, ".")
    /\ find(s, "*")[1] > find(s, ".")[1]

\* C12: '*' is honoured only in the first label: for a pattern whose first '*'
\* comes after its first '.', no wildcard evaluation happens and the pattern
\* matches only by exact string equality.
C12_StarOnlyInFirstLabel ==
    (wildcard_result # None /\ StarAfterFirstDot(pattern)) =>
        /\ wildcard_result = Some(None)
        /\ dns_result = Some(strip_dot(pattern) = strip_dot(hostname))

C12_Witness ==
    /\ pattern = a_star_a
    /\ hostname = a_b_a
    /\ wildcard_result = Some(None)
    /\ dns_result = Some(FALSE)

\* C13: for a pattern without '*', matches_dns is true iff the pattern equals
\* the hostname, case-sensitively, after trailing-dot normalisation of both.
C13_NoStarExactEquality ==
    (dns_result # None /\ ~contains(pattern, "*")) =>
        /\ dns_result = Some(strip_dot(pattern) = strip_dot(hostname))
        /\ (pattern = example_com /\ hostname = Example_com) => dns_result = Some(FALSE)

C13_Witness ==
    /\ pattern = example_com
    /\ hostname = Example_com
    /\ dns_result = Some(FALSE)

\* a name and the name with one or two trailing dots appended
WithDots(s) == { s, s \o dot, s \o dot \o dot }

\* a name and, unless it already ends with '.', the name with one dot appended
WithDot(s) == IF ends_with_char(s, ".") THEN { s } ELSE { s, s \o dot }

\* C14: for every DNS pattern and DNS hostname, the result of matches_dns is
\* unchanged when trailing dots are appended to the pattern, to the hostname,
\* or to both.
C14_TrailingDotsIgnored ==
    (dns_result # None /\ ~is_ip) =>
        \A p2 \in WithDots(pattern), h2 \in WithDots(hostname) :
            matches_dns(p2, h2, is_ip) = dns_result[1]

\* C14, amended: matches_dns strips one trailing dot from each name, so its
\* result is unchanged when a single dot is appended to a pattern, a hostname,
\* or both, that did not already end with one.
C14_OneTrailingDotIgnored ==
    (dns_result # None /\ ~is_ip) =>
        \A p2 \in WithDot(pattern), h2 \in WithDot(hostname) :
            matches_dns(p2, h2, is_ip) = dns_result[1]

C14_Witness ==
    /\ pattern = example_com
    /\ hostname = example_com \o dot
    /\ dns_result = Some(TRUE)


\* what the claim calls a matching entry of the relevant type, ip being the
\* parse of the requested host
EntryMatches(dom, name, ip) ==
    IF ip # None
    THEN name.kind = "ip" /\ matches_ip(ip[1], name.data)
    ELSE name.kind = "dns" /\ matches_dns(name.data, dom, FALSE)

\* every reordering of a sequence
Reorderings(seq) ==
    { [i \in 1..Len(seq) |-> seq[f[i]]] :
        f \in { g \in [1..Len(seq) -> 1..Len(seq)] :
                  \A i, j \in 1..Len(seq) : g[i] = g[j] => i = j } }

AnyEntryAnyOrder(dom, names, ip, result) ==
    /\ result = (\E i \in 1..Len(names) : EntryMatches(dom, names[i], ip))
    /\ \A reordered \in Reorderings(names) :
           subject_alt_names_loop(dom, reordered, ip) = result

\* C15: verify_subject_alt_names returns true iff at least one SAN entry of the
\* type relevant to the requested host matches it, and false when the entries
\* are exhausted without a match; the result does not depend on the order of
\* the entries.
C15_AnySanEntryAnyOrder ==
    (host_result # None /\ cert.san # None) =>
        AnyEntryAnyOrder(domain, cert.san[1], parse_ip(domain), host_result[1])

C15_Witness ==
    /\ domain = api_example_com
    /\ cert.san = Some(<< Dns(example_com), Dns(star_example_com) >>)
    /\ host_result = Some(TRUE)


\* C16: each connect call creates a fresh session whose verification callback
\* is bound to that call's own requested host: with connections to different
\* hosts in progress on the same connector, every callback invocation checks
\* the leaf against the host of its own connection, never against another's.
C16_CallbackBoundToOwnHost ==
    \A c \in Conns : \A i \in 1..Len(session_calls[c]) :
        /\ session_calls[c][i].domain = sessions[c].domain
        /\ (session_calls[c][i].preverify_ok /\ session_calls[c][i].current_cert # None)
              => /\ session_calls[c][i].hostname =
                        Some(verify_hostname(sessions[c].domain,
                                             session_calls[c][i].current_cert[1]))
                 /\ session_calls[c][i].ret = session_calls[c][i].hostname[1]

C16_Witness ==
    /\ sessions[1].domain = api_example_com
    /\ sessions[2].domain = example_com
    /\ sessions[1].leaf = sessions[2].leaf
    /\ sessions[1].state = "handshake" /\ Len(session_calls[1]) = 1
    /\ session_calls[1][1].ret
    /\ sessions[2].state = "error" /\ Len(session_calls[2]) = 1
    /\ session_calls[2][1].preverify_ok /\ ~session_calls[2][1].ret

\* C17: the trust store and TLS policy of a connector are never mutated after
\* create_http_connector returned: every step of any interleaving of connect /
\* wrap_client calls leaves the shared SslContext and RootCertStore unchanged.
C17_ConnectorNeverMutated ==
    [][connector.status = "built" => connector' = connector]_vars

C17_Witness ==
    /\ connector = create_http_connector("valid")
    /\ sessions[1].state = "stream"
    /\ sessions[2].state = "handshake"

\* C18: building a connector with a trust bundle path that does not exist, or
\* whose file cannot be parsed as PEM certificates, fails with a ConfigError
\* returned to the caller, and never produces a connector that trusts all
\* certificates.
C18_BadBundleConfigError ==
    (connector.status # "unbuilt" /\ connector.certificate_file # Some("valid")) =>
        /\ connector.status = "ConfigError"
        /\ \A c \in Conns : sessions[c].state # "stream"

\* C19: when the handshake fails, every verification reject included, connect
\* and wrap_client return hyper::Error::Ssl after exactly one handshake attempt:
\* no retry, and no stream for that attempt.
C19_FailureIsOneAttemptError ==
    /\ (\E i \in 1..Len(calls) : ~calls[i].ret) => ssl.state = "error"
    /\ ssl.state = "error" =>
          /\ ssl.result = Some(ErrSsl)
          /\ ssl.wrapped = Some(ErrSsl)
          /\ ssl.attempts = 1
    /\ ssl.state = "handshake" => (ssl.attempts = 1 /\ ssl.result = None)
    /\ ssl.state = "stream" =>
          /\ ssl.attempts = 1
          /\ \A i \in 1..Len(calls) : calls[i].ret

C19_Witness ==
    /\ ssl.state = "error"
    /\ ssl.wrapped = Some(ErrSsl)
    /\ Len(calls) = 2
    /\ calls[1].ret
    /\ calls[2].depth = 0 /\ calls[2].hostname = Some(FALSE)


\* C20: rustls_verify and openssl_verify_fn / verify_callback produce the same
\* hostname decision: for every leaf certificate and requested host whose
\* chain is otherwise valid, both accept or both reject.
C20_ModesAgree ==
    (mode_result.openssl # None /\ mode_result.rustls # None) =>
        mode_result.openssl = mode_result.rustls


(***************************************************************************)
(* Properties of the TLS policy built by create_http_connector (SpecPool)  *)
(***************************************************************************)
\* C21: every TLS context built by create_http_connector has SSLv2, SSLv3 and
\* TLS-level compression disabled, whatever the input to the builder.
C21_WeakProtocolsDisabled ==
    connector.status = "built" =>
        /\ "SSL_OP_NO_SSLV2" \in connector.context[1].options
        /\ "SSL_OP_NO_SSLV3" \in connector.context[1].options
        /\ "SSL_OP_NO_COMPRESSION" \in connector.context[1].options

C21_Witness ==
    /\ connector.status = "built"
    /\ connector.certificate_file = Some("not_pem")
    /\ ~connector.context[1].ca_file

\* the words of a suite name
has_word(suite, w) == \E i \in 1..Len(suite) : suite[i] = w

forward_secret(suite) == suite[1] \in { "ECDHE", "DHE" }

\* the preference class the claim gives a suite: 1 ECDSA + forward secrecy +
\* AES-GCM, 2 RSA + forward secrecy + AES-GCM, 3 the SHA-256/384 variants,
\* 4 legacy CBC and 3DES
cipher_class(suite) ==
    IF forward_secret(suite) /\ has_word(suite, "GCM") /\ has_word(suite, "ECDSA") THEN 1
    ELSE IF forward_secret(suite) /\ has_word(suite, "GCM") THEN 2
    ELSE IF suite[Len(suite)] \in { "SHA256", "SHA384" } THEN 3
    ELSE 4

CiphersPreference(list) ==
    /\ Len(list) > 0
    /\ cipher_class(list[1]) = 1
    \* the forward-secret AES-GCM suites head the list
    /\ \A i, j \in 1..Len(list) :
          (forward_secret(list[j]) /\ has_word(list[j], "GCM")
              /\ ~(forward_secret(list[i]) /\ has_word(list[i], "GCM"))) => j < i
    \* every forward-secret suite precedes every suite without forward secrecy
    /\ \A i, j \in 1..Len(list) :
          (forward_secret(list[j]) /\ ~forward_secret(list[i])) => j < i
    \* among the forward-secret suites the 3DES ones are last
    /\ \A i, j \in 1..Len(list) :
          (forward_secret(list[i]) /\ forward_secret(list[j])
              /\ has_word(list[i], "DES") /\ ~has_word(list[j], "DES")) => j < i
    \* an ECDSA suite comes right before the RSA suite of the same cipher, but
    \* the ECDSA and the RSA suites are interleaved
    /\ \E i, j \in 1..Len(list) : i < j /\ cipher_class(list[i]) > cipher_class(list[j])

FirstLabel(s) == Slice(s, 0, find(s, ".")[1])

\* C26: when matches_wildcard accepts, the hostname's first label begins with
\* the pattern text before '*', and the rest of the label after that prefix
\* ends with the pattern text between '*' and the first '.': prefix and suffix
\* match non-overlapping parts, so the label is at least as long as both
\* together; "ab*ba.example.com" does not match "aba.example.com".
C26_PrefixSuffixDisjoint ==
    wildcard_result # None =>
        /\ wildcard_result = Some(Some(TRUE)) =>
              /\ starts_with(FirstLabel(strip_dot(hostname)),
                             Slice(pattern, 0, find(pattern, "*")[1]))
              /\ ends_with(SliceFrom(FirstLabel(strip_dot(hostname)), find(pattern, "*")[1]),
                           Slice(pattern, find(pattern, "*")[1] + 1, find(pattern, ".")[1]))
              /\ Len(FirstLabel(strip_dot(hostname))) >= Len(FirstLabel(pattern)) - 1
        /\ (pattern = abstarba_example_com /\ hostname = aba_example_com)
              => dns_result = Some(FALSE)
        /\ (pattern = abstarba_example_com /\ hostname = abba_example_com)
              => dns_result = Some(TRUE)

C26_Witness ==
    /\ pattern = abstarba_example_com
    /\ hostname = aba_example_com
    /\ wildcard_result = Some(Some(FALSE))

\* C27: without a SAN extension verify_subject_name decides on the first Common
\* Name entry only: false if there is none or if it is not valid UTF-8; later
\* entries are never consulted, even if one of them equals the requested host.
C27_FirstCommonNameOnly ==
    (host_result # None /\ cert.san = None) =>
        host_result[1] =
            (/\ Len(cert.cn) >= 1
             /\ cert.cn[1].utf8
             /\ matches_dns(cert.cn[1].data, domain, parse_ip(domain) # None))

C27_Witness ==
    /\ domain = example_com
    /\ cert.san = None
    /\ Len(cert.cn) = 2
    /\ cert.cn[1] = [utf8 |-> FALSE, data |-> example_com]
    /\ cert.cn[2] = [utf8 |-> TRUE, data |-> example_com]
    /\ host_result = Some(FALSE)


(***************************************************************************)
(* Properties of rustls_verify (SpecRustls)                                *)
(***************************************************************************)
\* the presented certificates rustls_verify collects from a chain() result
PresentedCerts(chain) == IF chain # None THEN chain[1] ELSE << >>

\* C28: the result of rustls_verify does not depend on preverify_ok nor on the
\* depth of the invocation: every invocation revalidates the whole presented
\* chain against the root store and the requested host, and the result is
\* false when the context supplies no chain.
C28_RustlsIgnoresPreverifyAndDepth ==
    rustls_call # None =>
        /\ rustls_call[1].ret =
              verify_server_cert(connector.roots[1], PresentedCerts(rustls_call[1].chain),
                                 domain)
        /\ rustls_call[1].chain = None => ~rustls_call[1].ret
        /\ \A preverify_ok \in BOOLEAN, depth \in 0..(MaxChain - 1) :
              rustls_verify(domain, connector.roots[1], preverify_ok,
                            [error_depth |-> depth, current_cert |-> Some(CA),
                             chain |-> rustls_call[1].chain]) = rustls_call[1].ret

C28_Witness ==
    /\ rustls_call # None
    /\ ~rustls_call[1].preverify_ok
    /\ rustls_call[1].error_depth = 1
    /\ rustls_call[1].chain # None
    /\ rustls_call[1].ret


(***************************************************************************)
(* Script origins (components/script/origin.rs) and the cross-origin       *)
(* wrapper (components/script/dom/crossoriginobject.rs)                     *)
(***************************************************************************)
MaxOrigins == 3

\* the schemes whose URLs have a scheme/host/port origin
TupleSchemes == { "ftp", "gopher", "http", "https", "ws", "wss" }

\* the port a scheme implies when the URL names none
default_port(scheme) ==
    CASE scheme \in { "http", "ws" } -> Some(80)
      [] scheme \in { "https", "wss" } -> Some(443)
      [] scheme = "ftp" -> Some(21)
      [] scheme = "gopher" -> Some(70)
      [] OTHER -> None

\* Url::parse on the components as written: a port equal to the scheme's
\* default is dropped
Url_parse(scheme, host, port, path) ==
    [scheme |-> scheme, host |-> host,
     port |-> IF port = default_port(scheme) THEN None ELSE port,
     path |-> path]

port_or_known_default(url) ==
    IF url.port # None THEN url.port ELSE default_port(url.scheme)

Tuple(scheme, host, port) ==
    [tag |-> "Tuple", scheme |-> scheme, host |-> host, port |-> port]

Opaque(id) == [tag |-> "Opaque", scheme |-> "", host |-> "", port |-> id]

\* an identifier source that hands out one identifier to every caller
new_opaque_shared(counter) == Opaque(0)

\* UrlOrigin::new_opaque: the next value of the process-wide counter
new_opaque(counter) == Opaque(counter)

\* Url::origin
url_origin(url, counter) ==
    IF url.scheme \in TupleSchemes
    THEN Tuple(url.scheme, url.host[1], port_or_known_default(url)[1])
    ELSE new_opaque(counter)

\* whether Url::origin drew an identifier from the counter
draws_opaque(url) == url.scheme \notin TupleSchemes

\* Origin { inner: Arc<UrlOrigin> }: arc names the shared allocation
Origin(inner, arc) == [inner |-> inner, arc |-> arc]

opaque_identifier(counter, arc) == Origin(new_opaque(counter), arc)

Origin_new(url, counter, arc) == Origin(url_origin(url, counter), arc)

is_scheme_host_port_tuple(self) == self.inner.tag = "Tuple"

\* a comparison that leaves the port out
same_origin_ignoring_port(self, other) ==
    /\ self.inner.tag = other.inner.tag
    /\ self.inner.scheme = other.inner.scheme
    /\ self.inner.host = other.inner.host
    /\ self.inner.tag = "Opaque" => self.inner = other.inner

same_origin(self, other) == self.inner = other.inner

\* a comparison of tuples that counts the port
same_origin_domain_with_port(self, other) == self.inner = other.inner

\* a comparison whose tuple arm accepts every other origin that is no tuple
same_origin_domain_open_arm(self, other) ==
    IF self.inner.tag = "Opaque" THEN self.inner = other.inner
    ELSE IF other.inner.tag = "Tuple"
         THEN /\ self.inner.scheme = other.inner.scheme
              /\ self.inner.host = other.inner.host
         ELSE TRUE

same_origin_domain(self, other) ==
    IF self.inner.tag = "Opaque" THEN self.inner = other.inner
    ELSE IF other.inner.tag = "Tuple"
         THEN /\ self.inner.scheme = other.inner.scheme
              /\ self.inner.host = other.inner.host
         ELSE FALSE

copy(self, arc) == Origin(self.inner, arc)

alias(self) == Origin(self.inner, self.arc)

CrossOrigin_new(origin, arc) == [origin |-> copy(origin, arc)]

isPlatformObjectSameOrigin(self, obj) == same_origin_domain(self.origin, obj)

\* the URLs of the unit tests, one with its default port written out, and one
\* of a scheme without a scheme/host/port origin
OriginUrls ==
    { Url_parse("http", Some("example.com"), None, "/a.html"),
      Url_parse("http", Some("example.com"), None, "/b.html"),
      Url_parse("http", Some("example.org"), None, "/a.html"),
      Url_parse("https", Some("example.com"), None, "/a.html"),
      Url_parse("http", Some("example.com"), Some(412), "/a.html"),
      Url_parse("http", Some("example.com"), Some(317), "/a.html"),
      Url_parse("http", Some("example.com"), Some(80), "/b.html"),
      Url_parse("data", None, None, "text/html,a") }

NoUrl == Url_parse("", None, None, "")

\* an entry of origins: the value and the call that made it
Made(origin, op, url, of) == [origin |-> origin, op |-> op, url |-> url, of |-> of]

InitOrigin ==
    /\ origins = << >>
    /\ opaque_counter = 0
    /\ xow = None
    /\ xow_result = None
    /\ children = << >> /\ created = 0 /\ insert_call = None
    /\ pattern = << >> /\ hostname = << >> /\ is_ip = FALSE /\ dns_result = None
    /\ wildcard_result = None
    /\ domain = << >> /\ cert = [san |-> None, cn |-> << >>]
    /\ host_result = None
    /\ mode_result = NoModeResult
    /\ rustls_call = None
    /\ ssl = NoSession
    /\ calls = << >>
    /\ connector = create_http_connector("valid")
    /\ sessions = NoSessions
    /\ session_calls = NoCalls

OtherThanOrigins ==
    /\ UNCHANGED dnsVars
    /\ UNCHANGED hostVars
    /\ UNCHANGED sslVars
    /\ UNCHANGED poolVars
    /\ UNCHANGED tableVars

OriginNew(url) ==
    /\ Len(origins) < MaxOrigins
    /\ origins' = Append(origins,
                         Made(Origin_new(url, opaque_counter, Len(origins) + 1),
                              "new", url, 0))
    /\ opaque_counter' = IF draws_opaque(url) THEN opaque_counter + 1 ELSE opaque_counter
    /\ UNCHANGED << xow, xow_result >>
    /\ OtherThanOrigins

OpaqueIdentifier ==
    /\ Len(origins) < MaxOrigins
    /\ origins' = Append(origins,
                         Made(opaque_identifier(opaque_counter, Len(origins) + 1),
                              "opaque_identifier", NoUrl, 0))
    /\ opaque_counter' = opaque_counter + 1
    /\ UNCHANGED << xow, xow_result >>
    /\ OtherThanOrigins

Copy(i) ==
    /\ Len(origins) < MaxOrigins
    /\ i \in 1..Len(origins)
    /\ origins' = Append(origins,
                         Made(copy(origins[i].origin, Len(origins) + 1), "copy", NoUrl, i))
    /\ UNCHANGED << opaque_counter, xow, xow_result >>
    /\ OtherThanOrigins

Alias(i) ==
    /\ Len(origins) < MaxOrigins
    /\ i \in 1..Len(origins)
    /\ origins' = Append(origins, Made(alias(origins[i].origin), "alias", NoUrl, i))
    /\ UNCHANGED << opaque_counter, xow, xow_result >>
    /\ OtherThanOrigins

CrossOriginNew(i) ==
    /\ xow = None
    /\ i \in 1..Len(origins)
    /\ xow' = Some([object |-> CrossOrigin_new(origins[i].origin, 0), of |-> i])
    /\ UNCHANGED << origins, opaque_counter, xow_result >>
    /\ OtherThanOrigins

IsPlatformObjectSameOrigin(j) ==
    /\ xow # None
    /\ j \in 1..Len(origins)
    /\ xow_result' = Some([obj |-> j,
                           ret |-> isPlatformObjectSameOrigin(xow[1].object,
                                                              origins[j].origin)])
    /\ UNCHANGED << origins, opaque_counter, xow >>
    /\ OtherThanOrigins

NextOrigin ==
    \/ \E url \in OriginUrls : OriginNew(url)
    \/ OpaqueIdentifier
    \/ \E i \in 1..MaxOrigins : Copy(i)
    \/ \E i \in 1..MaxOrigins : Alias(i)
    \/ \E i \in 1..MaxOrigins : CrossOriginNew(i)
    \/ \E j \in 1..MaxOrigins : IsPlatformObjectSameOrigin(j)

SpecOrigin == InitOrigin /\ [][NextOrigin]_vars


(***************************************************************************)
(* Properties of origins (SpecOrigin)                                      *)
(***************************************************************************)
MadeBy(op) == { i \in 1..Len(origins) : origins[i].op = op }

Derived == MadeBy("copy") \cup MadeBy("alias")

SameSchemeHostPort(a, b) ==
    /\ a.scheme = b.scheme
    /\ a.host = b.host
    /\ a.port = b.port

ReflexiveAndDerivedAgree ==
    /\ \A i \in 1..Len(origins) : same_origin(origins[i].origin, origins[i].origin)
    /\ \A i \in Derived :
          /\ same_origin(origins[i].origin, origins[origins[i].of].origin)
          /\ same_origin(origins[origins[i].of].origin, origins[i].origin)
          /\ is_scheme_host_port_tuple(origins[i].origin)
               = is_scheme_host_port_tuple(origins[origins[i].of].origin)

C24_OpaqueOrigins ==
    /\ \A i \in MadeBy("opaque_identifier"), j \in MadeBy("opaque_identifier") :
          i # j => /\ ~same_origin(origins[i].origin, origins[j].origin)
                   /\ ~same_origin(origins[j].origin, origins[i].origin)
    /\ \A i \in MadeBy("alias") :
          origins[origins[i].of].op = "opaque_identifier" =>
              /\ same_origin(origins[origins[i].of].origin, origins[i].origin)
              /\ same_origin_domain(origins[origins[i].of].origin, origins[i].origin)
    /\ \A i \in MadeBy("opaque_identifier") :
          /\ ~is_scheme_host_port_tuple(origins[i].origin)
          /\ \A j \in 1..Len(origins) :
                is_scheme_host_port_tuple(origins[j].origin) =>
                    /\ ~same_origin_domain(origins[i].origin, origins[j].origin)
                    /\ ~same_origin_domain(origins[j].origin, origins[i].origin)

C24_Witness ==
    /\ Len(origins) = 3
    /\ origins[1].op = "opaque_identifier"
    /\ origins[2].op = "opaque_identifier"
    /\ origins[3].op = "alias" /\ origins[3].of = 2

\* C25: for two tuple origins same_origin_domain is true iff their schemes are
\* equal and their hosts are equal, whatever the ports (the origins of
\* http://example.com:412 and http://example.com:317 are same-origin-domain,
\* those of https://example.com and http://example.com are not), and
\* isPlatformObjectSameOrigin(obj) returns exactly same_origin_domain between
\* the origin given to CrossOrigin::new and obj.
C25_SameOriginDomainIgnoresPort ==
    /\ \A i \in MadeBy("new"), j \in MadeBy("new") :
          ( /\ is_scheme_host_port_tuple(origins[i].origin)
            /\ is_scheme_host_port_tuple(origins[j].origin) ) =>
              ( same_origin_domain(origins[i].origin, origins[j].origin)
                  <=> /\ origins[i].url.scheme = origins[j].url.scheme
                      /\ origins[i].url.host = origins[j].url.host )
    /\ xow_result # None =>
          xow_result[1].ret = same_origin_domain(origins[xow[1].of].origin,
                                                 origins[xow_result[1].obj].origin)

C25_Witness ==
    /\ Len(origins) = 3
    /\ origins[1].op = "new" /\ origins[1].url.port = Some(412)
    /\ origins[2].op = "new" /\ origins[2].url.port = Some(317)
    /\ origins[3].op = "new" /\ origins[3].url.scheme = "https"
    /\ xow # None /\ xow[1].of = 1
    /\ xow_result = Some([obj |-> 2, ret |-> TRUE])

\* every origin there is: those created and the one the wrapper keeps
AllOrigins ==
    { origins[i].origin : i \in 1..Len(origins) }
        \cup (IF xow # None THEN { xow[1].object.origin } ELSE {})

\* C29: same_origin_domain is symmetric and implied by same_origin: for all
\* origins a and b, a.same_origin_domain(b) = b.same_origin_domain(a), and
\* a.same_origin(b) implies a.same_origin_domain(b).
C29_SameOriginDomainSymmetric ==
    \A a \in AllOrigins, b \in AllOrigins :
        /\ same_origin_domain(a, b) = same_origin_domain(b, a)
        /\ same_origin(a, b) => same_origin_domain(a, b)

C29_Witness ==
    /\ Len(origins) = 3
    /\ is_scheme_host_port_tuple(origins[1].origin)
    /\ ~is_scheme_host_port_tuple(origins[2].origin)
    /\ origins[3].op = "copy" /\ origins[3].of = 1
    /\ xow # None


(***************************************************************************)
(* insert_cell_or_row on a table section                                   *)
(* (components/script/dom/htmltablesectionelement.rs)                       *)
(***************************************************************************)
MaxChildren == 3

\* a node: its identity, and whether the items collection (Rows) holds it
Node(id, item) == [id |-> id, item |-> item]

IsItem(n) == n.item

\* get_items().elements_iter(): the children the collection's filter accepts
elements_iter(nodes) == SelectSeq(nodes, IsItem)

\* index as usize
as_usize(index) == IF index >= 0 THEN index ELSE index + 2^64

\* .map(Some).chain(iter::once(None))
chain_once_None(items) == [k \in 1..Len(items) |-> Some(items[k])] \o << None >>

\* Iterator::nth
nth(iter, n) == IF n < Len(iter) THEN Some(iter[n + 1]) ELSE None

Index(nodes, n) == CHOOSE k \in 1..Len(nodes) : nodes[k] = n

Contains(nodes, n) == \E k \in 1..Len(nodes) : nodes[k] = n

InsertAt(nodes, k, n) ==
    [m \in 1..(Len(nodes) + 1) |->
        IF m < k THEN nodes[m] ELSE IF m = k THEN n ELSE nodes[m - 1]]

\* Node::InsertBefore on a parent with the given children: the new sequence
\* of children, or the error of the pre-insertion checks
InsertBefore(parent_children, n, child) ==
    IF child = None
    THEN [ret |-> "Ok", children |-> Append(parent_children, n)]
    ELSE IF ~Contains(parent_children, child[1])
         THEN [ret |-> "NotFound", children |-> parent_children]
         ELSE [ret |-> "Ok",
               children |-> InsertAt(parent_children, Index(parent_children, child[1]), n)]

\* the children of a row of the section: rows here have no cells
ChildrenOf(n) == << >>

\* line 136: the receiver `node` is the binding of line 129, the entry the
\* iterator gave (the reference child, or nothing for the end of the list),
\* not the parameter of line 111; nothing is inserted into the section
InsertBefore_on_binding(node, tr, section_children) ==
    IF node = None
    THEN [ret |-> "NoReceiver", children |-> section_children]
    ELSE [ret |-> InsertBefore(ChildrenOf(node[1]), tr, node).ret,
          children |-> section_children]

\* fn insert_cell_or_row(node, index, get_items, new_child): its result and
\* the children of the section after it
insert_cell_or_row(section_children, index, tr) ==
    IF index < -1 THEN [ret |-> "IndexSize", children |-> section_children]
    ELSE IF index = -1 THEN InsertBefore(section_children, tr, None)
    ELSE IF nth(chain_once_None(elements_iter(section_children)), as_usize(index)) = None
         THEN [ret |-> "IndexSize", children |-> section_children]
         ELSE InsertBefore_on_binding(
                  nth(chain_once_None(elements_iter(section_children)),
                      as_usize(index))[1],
                  tr, section_children)

Indexes == (-2)..(MaxChildren + 1)

InitTable ==
    /\ children = << >>
    /\ created = 0
    /\ insert_call = None
    /\ origins = << >> /\ opaque_counter = 0 /\ xow = None /\ xow_result = None
    /\ pattern = << >> /\ hostname = << >> /\ is_ip = FALSE /\ dns_result = None
    /\ wildcard_result = None
    /\ domain = << >> /\ cert = [san |-> None, cn |-> << >>]
    /\ host_result = None
    /\ mode_result = NoModeResult
    /\ rustls_call = None
    /\ ssl = NoSession
    /\ calls = << >>
    /\ connector = create_http_connector("valid")
    /\ sessions = NoSessions
    /\ session_calls = NoCalls

OtherThanTable ==
    /\ UNCHANGED dnsVars
    /\ UNCHANGED hostVars
    /\ UNCHANGED sslVars
    /\ UNCHANGED poolVars
    /\ UNCHANGED originVars

\* the content the section has when InsertRow is called: rows and other nodes
AppendChild(item) ==
    /\ created < MaxChildren
    /\ children' = Append(children, Node(created + 1, item))
    /\ created' = created + 1
    /\ UNCHANGED insert_call
    /\ OtherThanTable

InsertCellOrRow(index) ==
    /\ index >= -1 => created < MaxChildren
    /\ children' = insert_cell_or_row(children, index, Node(created + 1, TRUE)).children
    /\ created' = IF index < -1 THEN created ELSE created + 1
    /\ insert_call' =
          Some([index |-> index, before |-> children, after |-> children',
                tr |-> Node(created + 1, TRUE),
                ret |-> insert_cell_or_row(children, index, Node(created + 1, TRUE)).ret])
    /\ OtherThanTable

NextTable ==
    \/ \E item \in BOOLEAN : AppendChild(item)
    \/ \E index \in Indexes : InsertCellOrRow(index)

SpecTable == InitTable /\ [][NextTable]_vars

(***************************************************************************)
(* Properties of insert_cell_or_row (SpecTable)                            *)
(***************************************************************************)
ItemCount(nodes) == Len(elements_iter(nodes))

ImmediatelyBefore(nodes, n, m) ==
    \E k \in 1..(Len(nodes) - 1) : nodes[k] = n /\ nodes[k + 1] = m

C30_Call(c) ==
    IF c.index < -1 \/ c.index > ItemCount(c.before)
    THEN c.ret = "IndexSize" /\ c.after = c.before
    ELSE /\ c.ret = "Ok"
         /\ ItemCount(c.after) = ItemCount(c.before) + 1
         /\ (c.index = -1 \/ c.index = ItemCount(c.before)) =>
              /\ Len(c.after) = Len(c.before) + 1
              /\ c.after[Len(c.after)] = c.tr
         /\ (0 <= c.index /\ c.index < ItemCount(c.before)) =>
              ImmediatelyBefore(c.after, c.tr, elements_iter(c.before)[c.index + 1])

\* C30: insert_cell_or_row returns IndexSize and leaves the node's children
\* unchanged when index < -1 or index is greater than the number of items;
\* otherwise it succeeds and the item count grows by exactly one, the new child
\* being appended last when index = -1 or index = number of items, and placed
\* immediately before the item previously at that index when
\* 0 <= index < number of items.
C30_InsertCellOrRow == insert_call # None => C30_Call(insert_call[1])


============================================================================
